---- MODULE Spec2Model ----
(***************************************************************************)
(* cycle_detector.c: the ancestors bit matrix and insert_link.             *)
(*                                                                         *)
(* A FIELD (unsigned long, 64 bits) is modelled as the set of the          *)
(* positions of its one-bits, so | is \cup and & is \cap.  The matrix is   *)
(* modelled on the rows in Nodes and the fields in Chunks: a row is only   *)
(* ever combined with the row of start_node, field by field, so for calls  *)
(* whose arguments are drawn from Nodes this is the projection of the full *)
(* 65536 x 1024 matrix onto those rows and fields.                         *)
(***************************************************************************)
EXTENDS Integers, FiniteSets, Sequences, TLC

\* ------------------------------------------------------------ constants
TOTAL_NODES == 65536

\* sizeof(FIELD)*8 with FIELD = unsigned long on an LP64 build
FIELD_SIZE == 64

FIELDS_PER_NODE == TOTAL_NODES \div FIELD_SIZE

\* width of int, the type of the expression 1 << n_target_bit
INT_BITS == 32

FAIL == 0

PASS == 1

BAD_DATA == 2

\* ------------------------------------------------------------ bounds
\* nodes 1..NumLow are modelled, with bit positions below INT_BITS
NumLow == 3

\* main's loop is followed for at most MaxCalls calls of insert_link
MaxCalls == 3

LowNodes == 1 .. NumLow

\* a node whose bit position n % FIELD_SIZE is INT_BITS or more
HighNodes == {INT_BITS + 1}

\* the rows of the matrix that are modelled (and the in-range inputs)
Nodes == LowNodes \cup HighNodes

\* the fields of a row that are modelled
Chunks == {n \div FIELD_SIZE : n \in Nodes}

\* out-of-range node ids offered to insert_link
BadIds == {-1, TOTAL_NODES}

Inputs == Nodes \cup BadIds

\* what a read outside the matrix may return: a zero word or an all-ones word
Garbage == {{}, 0 .. (FIELD_SIZE - 1)}

\* the outcomes of the over-wide shift 1 << b, b >= INT_BITS (undefined in C):
\* "wrap" = the count is taken modulo INT_BITS (x86 shl), "zero" = the result
\* is 0 (PowerPC slw, 32-bit ARM lsl)
ShiftModes == {"wrap", "zero"}

\* ancestors  the matrix (line 135), on the rows Nodes and the fields Chunks
\* pc         where main is: "start" before initialize_ancestors, "loop" in its
\*            loop, "undefined" after an access outside the matrix
\* shl        what this build computes for an over-wide shift
\* call       start_node and end_node of the last call of insert_link
\* result     what that call returned
\* accepted   history: the edges for which insert_link returned PASS
\* oob        history: some call accessed ancestors outside its bounds
\* ncalls     the number of calls of insert_link so far
\* jammed     scanf has failed to convert: the offending input is never
\*            consumed, so every later scanf fails too
\* pending    during a sweep followed row by row: the rows not yet visited
\* pre        the matrix as it was when that sweep began
\* procs      for each of two concurrent callers: the edge whose is_ancestor
\*            test it has passed and whose update it has yet to run, or <<>>
\* atomic     whether insert_link runs as one step
VARIABLES ancestors, pc, shl, call, result, accepted, oob, ncalls,
          jammed, pending, pre, procs, atomic

vars == <<ancestors, pc, shl, call, result, accepted, oob, ncalls,
          jammed, pending, pre, procs, atomic>>

\* the concurrent callers of insert_link
Procs == {1, 2}

\* ------------------------------------------------------------ bit twiddling
\* n / FIELD_SIZE with n converted to unsigned long, stored in an int:
\* for n >= 0 the quotient, for n < 0 (2^64 + n) / 64 truncated to 32 bits,
\* which is the floor quotient
TargetChunk(n) == n \div FIELD_SIZE

\* n % FIELD_SIZE with n converted to unsigned long
TargetBit(n) == n % FIELD_SIZE

\* the int value of 1 << bit, as the set of its one-bits
IntShift(mode, bit) ==
    IF bit < INT_BITS THEN {bit}
    ELSE IF mode = "wrap" THEN {bit % INT_BITS}
    ELSE {}

\* conversion of an int to FIELD: sign extension
ToField(w) ==
    IF (INT_BITS - 1) \in w THEN w \cup (INT_BITS .. (FIELD_SIZE - 1)) ELSE w

\* bit_to_get / bit_to_set as a FIELD
BitMask(mode, n) == ToField(IntShift(mode, TargetBit(n)))

\* is ancestors[k][c] inside the matrix
ValidIndex(k, c) ==
    /\ 0 <= k /\ k < TOTAL_NODES
    /\ 0 <= c /\ c < FIELDS_PER_NODE

\* the word read at ancestors[k][c]; g is what reads outside the matrix return
ReadField(anc, g, k, c) ==
    IF k \in Nodes /\ c \in Chunks THEN anc[k][c] ELSE g

is_ancestor(anc, g, mode, n_node, n_ancestor) ==
    (ReadField(anc, g, n_node, TargetChunk(n_ancestor))
        \cap BitMask(mode, n_ancestor)) # {}

set_ancestor(anc, mode, n_descendant, n_ancestor) ==
    [anc EXCEPT ![n_descendant][TargetChunk(n_ancestor)] =
        @ \cup BitMask(mode, n_ancestor)]

\* ------------------------------------------------------------ loops
\* the elements of a set of integers in ascending order
RECURSIVE Ascending(_)
Ascending(S) ==
    IF S = {} THEN <<>>
    ELSE LET m == CHOOSE x \in S : \A y \in S : x <= y
         IN <<m>> \o Ascending(S \ {m})

\* for(i=0;i<TOTAL_NODES;i++) set_ancestor(i,i), over the rows in order
RECURSIVE InitLoop(_, _, _)
InitLoop(anc, mode, rows) ==
    IF rows = <<>> THEN anc
    ELSE InitLoop(set_ancestor(anc, mode, Head(rows), Head(rows)), mode, Tail(rows))

\* the order in which the loops visit the modelled rows and fields
RowOrder == Ascending(Nodes)

FieldOrder == Ascending(Chunks)

initialize_ancestors(anc, mode) == InitLoop(anc, mode, RowOrder)

\* the field loop with ^= in place of |=
RECURSIVE FieldLoop_xor(_, _, _, _, _)
FieldLoop_xor(anc, g, k, start_node, fields) ==
    IF fields = <<>> THEN anc
    ELSE LET f == Head(fields)
             w == ReadField(anc, g, start_node, f)
         IN FieldLoop_xor([anc EXCEPT ![k][f] = (@ \cup w) \ (@ \cap w)],
                          g, k, start_node, Tail(fields))

\* the field loop with = in place of |=
RECURSIVE FieldLoop_assign(_, _, _, _, _)
FieldLoop_assign(anc, g, k, start_node, fields) ==
    IF fields = <<>> THEN anc
    ELSE LET f == Head(fields)
         IN FieldLoop_assign([anc EXCEPT ![k][f] = ReadField(anc, g, start_node, f)],
                             g, k, start_node, Tail(fields))

\* for(n_field...) ancestors[k][n_field] |= ancestors[start_node][n_field]
RECURSIVE FieldLoop(_, _, _, _, _)
FieldLoop(anc, g, k, start_node, fields) ==
    IF fields = <<>> THEN anc
    ELSE LET f == Head(fields)
         IN FieldLoop([anc EXCEPT ![k][f] = @ \cup ReadField(anc, g, start_node, f)],
                      g, k, start_node, Tail(fields))

\* the body of the row loop without its if: every row is updated
RowStep_no_test(anc, g, mode, start_node, end_node, k) ==
    FieldLoop(anc, g, k, start_node, FieldOrder)

\* the body of the row loop with the arguments of is_ancestor exchanged
RowStep_swapped_test(anc, g, mode, start_node, end_node, k) ==
    IF is_ancestor(anc, g, mode, end_node, k)
    THEN FieldLoop(anc, g, k, start_node, FieldOrder)
    ELSE anc

\* the body of the row loop, for row k:
\* if (is_ancestor(k,end_node)) { field loop }
RowStep(anc, g, mode, start_node, end_node, k) ==
    IF is_ancestor(anc, g, mode, k, end_node)
    THEN FieldLoop(anc, g, k, start_node, FieldOrder)
    ELSE anc

\* for(k...) { body }, in place, over the rows in the order given
RECURSIVE RowLoop(_, _, _, _, _, _)
RowLoop(anc, g, mode, start_node, end_node, rows) ==
    IF rows = <<>> THEN anc
    ELSE RowLoop(RowStep(anc, g, mode, start_node, end_node, Head(rows)),
                 g, mode, start_node, end_node, Tail(rows))

insert_ancestors(anc, g, mode, start_node, end_node) ==
    RowLoop(anc, g, mode, start_node, end_node, RowOrder)

\* ------------------------------------------------------------ insert_link
\* insert_link without the start_node == end_node branch
insert_link_no_self_check(anc, g, mode, start_node, end_node) ==
    IF start_node >= TOTAL_NODES
    THEN [ret |-> BAD_DATA, anc |-> anc, oob |-> FALSE]
    ELSE IF end_node >= TOTAL_NODES
    THEN [ret |-> BAD_DATA, anc |-> anc, oob |-> FALSE]
    ELSE IF is_ancestor(anc, g, mode, start_node, end_node)
    THEN [ret |-> FAIL, anc |-> anc,
          oob |-> ~ValidIndex(start_node, TargetChunk(end_node))]
    ELSE [ret |-> PASS,
          anc |-> insert_ancestors(anc, g, mode, start_node, end_node),
          oob |-> ~ValidIndex(start_node, TargetChunk(end_node))]

\* insert_link that updates the matrix before it tests for the cycle
insert_link_update_first(anc, g, mode, start_node, end_node) ==
    IF start_node >= TOTAL_NODES
    THEN [ret |-> BAD_DATA, anc |-> anc, oob |-> FALSE]
    ELSE IF end_node >= TOTAL_NODES
    THEN [ret |-> BAD_DATA, anc |-> anc, oob |-> FALSE]
    ELSE IF start_node = end_node
    THEN [ret |-> FAIL, anc |-> anc, oob |-> FALSE]
    ELSE IF is_ancestor(anc, g, mode, start_node, end_node)
    THEN [ret |-> FAIL,
          anc |-> insert_ancestors(anc, g, mode, start_node, end_node),
          oob |-> ~ValidIndex(start_node, TargetChunk(end_node))]
    ELSE [ret |-> PASS,
          anc |-> insert_ancestors(anc, g, mode, start_node, end_node),
          oob |-> ~ValidIndex(start_node, TargetChunk(end_node))]

\* the return value, the matrix afterwards, and whether the call accessed
\* ancestors outside its bounds
insert_link(anc, g, mode, start_node, end_node) ==
    IF start_node >= TOTAL_NODES
    THEN [ret |-> BAD_DATA, anc |-> anc, oob |-> FALSE]
    ELSE IF end_node >= TOTAL_NODES
    THEN [ret |-> BAD_DATA, anc |-> anc, oob |-> FALSE]
    ELSE IF start_node = end_node
    THEN [ret |-> FAIL, anc |-> anc, oob |-> FALSE]
    ELSE IF is_ancestor(anc, g, mode, start_node, end_node)
    THEN [ret |-> FAIL, anc |-> anc,
          oob |-> ~ValidIndex(start_node, TargetChunk(end_node))]
    ELSE [ret |-> PASS,
          anc |-> insert_ancestors(anc, g, mode, start_node, end_node),
          oob |-> ~ValidIndex(start_node, TargetChunk(end_node))]

\* the values reads outside the matrix can take during insert_link(s, t)
GarbageFor(s, t) ==
    IF ValidIndex(s, TargetChunk(t)) THEN {{}} ELSE Garbage

\* ------------------------------------------------------------ state machine
\* the static matrix is zero; main has not yet called initialize_ancestors
Init ==
    /\ ancestors = [k \in Nodes |-> [c \in Chunks |-> {}]]
    /\ pc = "start"
    /\ shl \in ShiftModes
    /\ call = <<>>
    /\ result = -1
    /\ accepted = {}
    /\ oob = FALSE
    /\ ncalls = 0
    /\ jammed = FALSE
    /\ pending = {}
    /\ pre = <<>>
    /\ procs = [p \in Procs |-> <<>>]
    /\ atomic = TRUE

InitializeAncestors ==
    /\ pc = "start"
    /\ ancestors' = initialize_ancestors(ancestors, shl)
    /\ pc' = "loop"
    /\ UNCHANGED <<shl, call, result, accepted, oob, ncalls,
                   jammed, pending, pre, procs, atomic>>

\* result = insert_link(s, t) in main's loop.  Once a call has accessed
\* ancestors outside its bounds the behaviour of the program is undefined:
\* the call is recorded and the run is followed no further.
CallInsertLink(s, t) ==
    /\ pc = "loop"
    /\ ncalls < MaxCalls
    /\ ncalls' = ncalls + 1
    /\ \E g \in GarbageFor(s, t) :
         LET r == insert_link(ancestors, g, shl, s, t)
         IN /\ ancestors' = r.anc
            /\ result' = r.ret
            /\ oob' = (oob \/ r.oob)
            /\ accepted' = IF r.ret = PASS THEN accepted \cup {<<s, t>>} ELSE accepted
            /\ pc' = IF r.oob THEN "undefined" ELSE pc
    /\ call' = <<s, t>>
    /\ UNCHANGED <<shl, pending, pre, procs, atomic>>

\* one pass of main's loop in which scanf reads the two integers s and t
InsertLink(s, t) ==
    /\ ~jammed
    /\ CallInsertLink(s, t)
    /\ UNCHANGED jammed

Next ==
    \/ InitializeAncestors
    \/ \E s \in Inputs, t \in Inputs : InsertLink(s, t)

Spec == Init /\ [][Next]_vars

\* ------------------------------------------------------------ set_ancestor alone
\* set_ancestor applied once to a zero row, for every bit position of field 0
BitInputs == 0 .. (FIELD_SIZE - 1)

BitInit ==
    /\ ancestors = [k \in Nodes |-> [c \in Chunks |-> {}]]
    /\ pc = "bits"
    /\ shl \in ShiftModes
    /\ call = <<>>
    /\ result = -1
    /\ accepted = {}
    /\ oob = FALSE
    /\ ncalls = 0
    /\ jammed = FALSE
    /\ pending = {}
    /\ pre = <<>>
    /\ procs = [p \in Procs |-> <<>>]
    /\ atomic = TRUE

SetAncestorOnce(i, n) ==
    /\ pc = "bits"
    /\ ancestors' = set_ancestor(ancestors, shl, i, n)
    /\ call' = <<i, n>>
    /\ pc' = "set"
    /\ UNCHANGED <<shl, result, accepted, oob, ncalls,
                   jammed, pending, pre, procs, atomic>>

BitNext == \E i \in Nodes, n \in BitInputs : SetAncestorOnce(i, n)

BitSpec == BitInit /\ [][BitNext]_vars

\* ------------------------------------------------------------ the sweep, row by row
\* insert_ancestors(s, t) begun on a matrix the program can reach, its rows
\* then visited one at a time in an order left open
SweepBegin(s, t) ==
    /\ pc = "loop"
    /\ ncalls < MaxCalls
    /\ pc' = "sweep"
    /\ call' = <<s, t>>
    /\ pre' = ancestors
    /\ pending' = Nodes
    /\ UNCHANGED <<ancestors, shl, result, accepted, oob, ncalls,
                   jammed, procs, atomic>>

SweepRow(k) ==
    /\ pc = "sweep"
    /\ k \in pending
    /\ ancestors' = RowStep(ancestors, {}, shl, call[1], call[2], k)
    /\ pending' = pending \ {k}
    /\ pc' = IF pending' = {} THEN "swept" ELSE "sweep"
    /\ UNCHANGED <<shl, call, result, accepted, oob, ncalls,
                   jammed, pre, procs, atomic>>

SweepNext ==
    \/ InitializeAncestors
    \/ \E s \in Nodes, t \in Nodes : InsertLink(s, t)
    \/ \E s \in Nodes, t \in Nodes : SweepBegin(s, t)
    \/ \E k \in Nodes : SweepRow(k)

SweepSpec == Init /\ [][SweepNext]_vars

\* ------------------------------------------------------------ two callers
\* Two callers of insert_link on the one matrix.  With atomic, a call is one
\* step.  Without, a call whose tests pass (lines 158-170) stops before
\* insert_ancestors (line 173), which it runs as a later step.
ConcInit ==
    /\ ancestors = [k \in Nodes |-> [c \in Chunks |-> {}]]
    /\ pc = "start"
    /\ shl \in ShiftModes
    /\ call = <<>>
    /\ result = -1
    /\ accepted = {}
    /\ oob = FALSE
    /\ ncalls = 0
    /\ jammed = FALSE
    /\ pending = {}
    /\ pre = <<>>
    /\ procs = [p \in Procs |-> <<>>]
    /\ atomic \in BOOLEAN

ConcAtomicCall(p, s, t) ==
    /\ atomic
    /\ CallInsertLink(s, t)
    /\ UNCHANGED jammed

\* insert_link(s, t) up to its is_ancestor test
ConcCheck(p, s, t) ==
    /\ ~atomic
    /\ pc = "loop"
    /\ ncalls < MaxCalls
    /\ procs[p] = <<>>
    /\ ncalls' = ncalls + 1
    /\ LET r == insert_link(ancestors, {}, shl, s, t)
       IN IF r.ret = PASS
          THEN /\ procs' = [procs EXCEPT ![p] = <<s, t>>]
               /\ UNCHANGED <<call, result>>
          ELSE /\ call' = <<s, t>>
               /\ result' = r.ret
               /\ UNCHANGED procs
    /\ UNCHANGED <<ancestors, pc, shl, accepted, oob, jammed, pending, pre, atomic>>

\* insert_ancestors(s, t) and return PASS, on the matrix as it now is
ConcUpdate(p) ==
    /\ ~atomic
    /\ pc = "loop"
    /\ procs[p] # <<>>
    /\ ancestors' = insert_ancestors(ancestors, {}, shl, procs[p][1], procs[p][2])
    /\ call' = procs[p]
    /\ result' = PASS
    /\ accepted' = accepted \cup {procs[p]}
    /\ procs' = [procs EXCEPT ![p] = <<>>]
    /\ UNCHANGED <<pc, shl, oob, ncalls, jammed, pending, pre, atomic>>

ConcNext ==
    \/ InitializeAncestors
    \/ \E p \in Procs, s \in Nodes, t \in Nodes : ConcAtomicCall(p, s, t)
    \/ \E p \in Procs, s \in Nodes, t \in Nodes : ConcCheck(p, s, t)
    \/ \E p \in Procs : ConcUpdate(p)

ConcSpec == ConcInit /\ [][ConcNext]_vars

\* ------------------------------------------------------------ main with unreadable input
\* One pass of main's loop in which scanf("%d %d") stops at input it cannot
\* convert, having assigned n = 0 or 1 of the two integers.  main ignores
\* what scanf returns (line 235) and calls insert_link with start_node and
\* end_node as they are: the one assigned in this pass (v), the others as the
\* pass before left them, or, in the first pass, uninitialised (a, b: any
\* values).  The input scanf stopped at stays unread, so every later scanf
\* assigns nothing.
BadInput(n, v, a, b) ==
    /\ n = 1 => ~jammed
    /\ (call # <<>>) => <<a, b>> = call
    /\ CallInsertLink(IF n = 1 THEN v ELSE a, b)
    /\ jammed' = TRUE

MainNext ==
    \/ InitializeAncestors
    \/ \E s \in Inputs, t \in Inputs : InsertLink(s, t)
    \/ \E n \in {0, 1}, v \in Inputs, a \in Inputs, b \in Inputs : BadInput(n, v, a, b)

MainSpec == Init /\ [][MainNext]_vars

\* ------------------------------------------------------------ vocabulary of the properties
\* is_ancestor on the current matrix, for in-range arguments
IsAnc(i, j) == is_ancestor(ancestors, {}, shl, i, j)

RECURSIVE TransitiveClosure(_)
TransitiveClosure(R) ==
    LET R2 == R \cup {<<a, c>> \in Inputs \X Inputs :
                        \E b \in Inputs : <<a, b>> \in R /\ <<b, c>> \in R}
    IN IF R2 = R THEN R ELSE TransitiveClosure(R2)

\* a nonempty path a -> ... -> b of edges for which insert_link returned PASS
PathExists(a, b) == <<a, b>> \in TransitiveClosure(accepted)

InRange(n) == 0 <= n /\ n < TOTAL_NODES

\* this step is a call of insert_link
CallStep == ncalls' = ncalls + 1

\* a call of insert_link has returned, and all calls so far stayed inside the matrix
Returned == call # <<>> /\ pc = "loop"

\* ------------------------------------------------------------ claims
\* C1: the graph of the edges for which insert_link returned PASS has no cycle
\* (as long as every call had in-range arguments).
C1_Acyclic ==
    (pc = "loop") => \A n \in Nodes : ~PathExists(n, n)

\* C2: exactness: after initialize_ancestors, is_ancestor(i, j) is true iff
\* i = j or there is a path j -> ... -> i of accepted edges.
C2_Exact ==
    (pc = "loop") =>
        \A i \in Nodes, j \in Nodes : IsAnc(i, j) <=> (i = j \/ PathExists(j, i))

\* C3: no legal edge is rejected: insert_link(s, t) with in-range s # t and no
\* path t -> ... -> s of accepted edges returns PASS.
C3_LegalAccepted ==
    (/\ Returned
     /\ call[1] \in Nodes /\ call[2] \in Nodes /\ call[1] # call[2]
     /\ ~PathExists(call[2], call[1]))
        => result = PASS

\* C4: a call of insert_link with an argument outside [0, TOTAL_NODES) returns
\* BAD_DATA, accesses nothing outside the matrix and leaves the matrix unchanged.
C4_OutOfRange ==
    [][(CallStep /\ (~InRange(call'[1]) \/ ~InRange(call'[2])))
         => (result' = BAD_DATA /\ ~oob' /\ ancestors' = ancestors)]_vars

\* C5: insert_link(x, x) returns FAIL for every valid node x.
C5_SelfLoopFails ==
    (call # <<>> /\ InRange(call[1]) /\ call[1] = call[2]) => result = FAIL

\* a self-loop on node 33 was offered on a build whose matrix holds no bit for it
C5_Witness ==
    /\ call = <<INT_BITS + 1, INT_BITS + 1>>
    /\ result = FAIL
    /\ ~IsAnc(INT_BITS + 1, INT_BITS + 1)

\* C6: a call of insert_link that returns FAIL leaves every entry of the
\* matrix as it was.
C6_FailChangesNothing ==
    [][(CallStep /\ result' = FAIL) => ancestors' = ancestors]_vars

\* an edge closing a cycle of accepted edges was offered and rejected
C6_Witness ==
    /\ Returned
    /\ result = FAIL
    /\ call[1] # call[2]
    /\ PathExists(call[2], call[1])

\* C7: after initialize_ancestors, is_ancestor(n, n) is true for every node n,
\* and stays true.
C7_Reflexive ==
    (pc # "start") => \A n \in Nodes : IsAnc(n, n)

\* C8: right after initialize_ancestors, is_ancestor(i, j) is true exactly
\* when i = j.
C8_InitialDiagonal ==
    (pc = "loop" /\ ncalls = 0) =>
        \A i \in Nodes, j \in Nodes : IsAnc(i, j) <=> (i = j)

\* C9: insert_link(s, t) with s # t and s already an ancestor of t returns
\* PASS and leaves the matrix unchanged.
C9_RedundantAccepted ==
    [][(/\ CallStep
        /\ call'[1] \in Nodes /\ call'[2] \in Nodes /\ call'[1] # call'[2]
        /\ IsAnc(call'[2], call'[1]))
         => (result' = PASS /\ ancestors' = ancestors)]_vars

\* C10: set_ancestor(i, n) on a zero row sets exactly bit n % FIELD_SIZE of
\* field n / FIELD_SIZE of row i, and is_ancestor(i, m) is then true for m = n
\* and for no other m of that field.
C10_BitAddressing ==
    (pc = "set") =>
        LET i == call[1]
            n == call[2]
        IN /\ ancestors[i][TargetChunk(n)] = {TargetBit(n)}
           /\ \A m \in BitInputs : IsAnc(i, m) <=> (m = n)

\* C11: insert_ancestors(s, t), as run by an accepting insert_link(s, t): every
\* row k with is_ancestor(k, t) true before becomes the union of row k and
\* row s as they were before; every other row is unchanged.
C11_SweepEffect ==
    [][(CallStep /\ result' = PASS /\ call'[1] \in Nodes /\ call'[2] \in Nodes)
         => \A k \in Nodes :
              ancestors'[k] =
                IF IsAnc(k, call'[2])
                THEN [c \in Chunks |-> ancestors[k][c] \cup ancestors[call'[1]][c]]
                ELSE ancestors[k]]_vars

\* 1 -> 2 was accepted when 3 already descended from 2: rows 2 and 3 gained 1,
\* row 1 gained nothing
C11_Witness ==
    /\ Returned
    /\ result = PASS
    /\ call = <<1, 2>>
    /\ IsAnc(3, 2) /\ IsAnc(3, 1) /\ IsAnc(2, 1)
    /\ ~IsAnc(1, 2) /\ ~IsAnc(1, 3)

\* C13: running insert_ancestors(s, t) again right after an accepting
\* insert_link(s, t) has run it changes no entry of the matrix.
C13_SweepIdempotent ==
    (/\ Returned
     /\ result = PASS
     /\ call[1] \in Nodes /\ call[2] \in Nodes)
        => insert_ancestors(ancestors, {}, shl, call[1], call[2]) = ancestors

\* an accepted call whose sweep updated a row besides that of end_node
C13_Witness ==
    /\ Returned
    /\ result = PASS
    /\ call[1] \in LowNodes /\ call[2] \in LowNodes
    /\ \E k \in LowNodes \ {call[2]} : IsAnc(k, call[2]) /\ IsAnc(k, call[1])

\* C14: no step clears an entry: once is_ancestor(i, j) is true it is true
\* after every later step.
C14_Monotone ==
    [][\A i \in Nodes, j \in Nodes : IsAnc(i, j) => IsAnc(i, j)']_vars

\* an edge accepted by an earlier call is still recorded after a later call
C14_Witness ==
    /\ Returned
    /\ ncalls >= 2
    /\ \E e \in accepted : e # call /\ e[1] \in Nodes /\ e[2] \in Nodes
                           /\ IsAnc(e[2], e[1])

\* C15: after initialize_ancestors, no two distinct nodes are each recorded as
\* an ancestor of the other.
C15_Antisymmetric ==
    (pc = "loop") =>
        \A i \in Nodes, j \in Nodes :
            (i # j) => ~(IsAnc(i, j) /\ IsAnc(j, i))

SerialClosure ==
    /\ \A i \in Nodes : IsAnc(i, i)
    /\ \A i \in Nodes, j \in Nodes : (i # j) => ~(IsAnc(i, j) /\ IsAnc(j, i))
    /\ \A i \in Nodes, j \in Nodes, k \in Nodes :
         (IsAnc(i, j) /\ IsAnc(j, k)) => IsAnc(i, k)

\* C16: when each insert_link is one atomic step, the recorded relation is
\* always the closure of a serial history of accepted edges (while with the
\* test and the update as separate steps C16_Race is reached).
C16_AtomicSerial ==
    (atomic /\ pc = "loop") => SerialClosure

\* both callers passed the test, one for 1 -> 2 and one for 2 -> 1, and both
\* then updated: each of 1 and 2 is recorded as an ancestor of the other
C16_Race ==
    /\ ~atomic
    /\ pc = "loop"
    /\ \A p \in Procs : procs[p] = <<>>
    /\ {<<1, 2>>, <<2, 1>>} \subseteq accepted
    /\ IsAnc(1, 2) /\ IsAnc(2, 1)
    /\ ~SerialClosure

\* C17: a pass of main's loop whose line cannot be read as two integers does
\* not call insert_link and leaves the matrix unchanged.
C17_BadLineSkipsStore ==
    [][jammed' => (ncalls' = ncalls /\ ancestors' = ancestors)]_vars

====
